---- MODULE Spec2Model ----
(***************************************************************************)
(* Model of src/lambda_function.py: one serverless handler that loads a   *)
(* TOML configuration, downloads a file over HTTP, opens a Snowflake      *)
(* connection and cursor, and runs six SQL statements that stage the file *)
(* and replace the destination table with its rows.                       *)
(*                                                                         *)
(* The local file, the stage, the file format and the destination table   *)
(* outlive an invocation; everything else is reset when an invocation     *)
(* starts.  Library calls (toml.load, requests.get, sf.connect,           *)
(* cursor.execute, the context managers' __exit__) either complete or     *)
(* raise; which one happens is chosen nondeterministically.  A statement  *)
(* that raises has no effect on the warehouse, and __exit__ of a cursor   *)
(* or connection closes it before any error it reports.                   *)
(***************************************************************************)
EXTENDS Integers, Sequences, FiniteSets, TLC

\* ---------------------------------------------------------------- bounds
\* longest file / response body / table, in rows
MaxLen == 2

\* ------------------------------------------------------------ data domains
\* rows of a CSV file: GoodRows parse under COMMA_CSV, BadRows do not
GoodRows == {1, 2}
BadRows == {3}
Rows == GoodRows \cup BadRows

RECURSIVE SeqsUpTo(_, _)
SeqsUpTo(S, n) ==
  IF n = 0 THEN {<<>>}
  ELSE LET shorter == SeqsUpTo(S, n - 1)
       IN shorter \cup {Append(q, x) : q \in {r \in shorter : Len(r) = n - 1}, x \in S}

\* HTTP status codes a response can carry
Statuses == {200, 304, 404, 503}

NoResponse == [status |-> 0, content |-> <<>>]

\* ------------------------------------------------------------------ state
VARIABLES
  pc,          \* position of the invocation in lambda_handler
  file,        \* content of the local destination file (persists)
  table,       \* rows of the destination table (persists)
  stage,       \* files held by the named stage (persists)
  fileFormat,  \* TRUE once COMMA_CSV has been defined (persists)
  conn,        \* "none" | "open" | "closed"
  cur,         \* "none" | "open" | "closed"
  exc,         \* text of the error raised in this invocation, "none" if none
  log,         \* statements passed to cursor.execute: <<statement, completed>>
  gets,        \* HTTP GET requests issued in this invocation
  response,    \* the response received by requests.get in this invocation
  pre,         \* the table's rows when the invocation started
  statusCode,  \* the handler's result: 0 before it returns
  body         \* the handler's result body, as a sequence of text pieces

vars == <<pc, file, table, stage, fileFormat, conn, cur, exc, log, gets,
          response, pre, statusCode, body>>

\* ------------------------------------------------------- pure operations
\* Response.raise_for_status(): HTTPError for 4xx and 5xx, nothing otherwise
RaisesForStatus(s) == (400 <= s /\ s < 500) \/ (500 <= s /\ s < 600)

\* open(path, 'wb') followed by file.write(content)
WriteFile_append(old, content) == old \o content
WriteFile(old, content) == content

RECURSIVE Prefixes(_)
Prefixes(q) ==
  IF q = <<>> THEN {}
  ELSE LET p == SubSeq(q, 1, Len(q) - 1) IN {p} \cup Prefixes(p)

\* the with-statement's __exit__ on a cursor or connection
Release_leak(h) == h
Release(h) == "closed"

\* the statements of prepare_snowflake_stage, in program order
StmtOrder_swapped == <<"FILE_FORMAT", "STAGE", "PUT", "LIST", "COPY", "TRUNCATE">>
StmtOrder_truncfirst == <<"TRUNCATE", "FILE_FORMAT", "STAGE", "PUT", "LIST", "COPY">>
StmtOrder_noformat == <<"STAGE", "PUT", "LIST", "TRUNCATE", "COPY">>
StmtOrder == <<"FILE_FORMAT", "STAGE", "PUT", "LIST", "TRUNCATE", "COPY">>

\* CREATE OR REPLACE STAGE: the new stage holds no files
CreateStage_keep(st) == st
CreateStage(st) == <<>>

\* PUT 'file://path' @stage: uploads the file unless the name is taken
PutFile(st, f) == IF st = <<>> THEN <<f>> ELSE st

\* TRUNCATE TABLE
TruncateTable_noop(t) == t
TruncateTable(t) == <<>>

\* rows of one staged file accepted under ON_ERROR = 'CONTINUE'
RECURSIVE ParseCSV(_)
ParseCSV(f) ==
  IF f = <<>> THEN <<>>
  ELSE IF Head(f) \in GoodRows THEN <<Head(f)>> \o ParseCSV(Tail(f))
       ELSE ParseCSV(Tail(f))

RECURSIVE LoadStage(_)
LoadStage(st) ==
  IF st = <<>> THEN <<>> ELSE ParseCSV(Head(st)) \o LoadStage(Tail(st))

\* COPY INTO table FROM @stage/file_name: appends the accepted rows
CopyInto(t, st) == t \o LoadStage(st)

\* except Exception: every error the pipeline raises derives from Exception
Errors == {"config_load", "key_local", "key_source", "network", "http_error",
           "open_file", "write_file", "key_snowflake", "connect", "cursor",
           "key_stage", "statement", "release"}
Catches(e) == e \in Errors

ErrorBody(e) == <<"Error uploading file to Snowflake: ", e>>
SuccessBody == <<"File uploaded to Snowflake successfully.">>

\* ------------------------------------------------------------------- Init
Init ==
  /\ pc = "idle"
  /\ file = <<>>
  /\ table \in SeqsUpTo(GoodRows, MaxLen)
  /\ stage = <<>>
  /\ fileFormat = FALSE
  /\ conn = "none"
  /\ cur = "none"
  /\ exc = "none"
  /\ log = <<>>
  /\ gets = 0
  /\ response = NoResponse
  /\ pre = table
  /\ statusCode = 0
  /\ body = <<>>

\* ---------------------------------------------------------------- actions
\* the platform calls lambda_handler(event, context)
Invoke ==
  /\ pc \in {"idle", "done", "crashed"}
  /\ pc' = "load_config"
  /\ conn' = "none" /\ cur' = "none" /\ exc' = "none"
  /\ log' = <<>> /\ gets' = 0 /\ response' = NoResponse
  /\ pre' = table
  /\ statusCode' = 0 /\ body' = <<>>
  /\ UNCHANGED <<file, table, stage, fileFormat>>

\* a step raises e: control leaves for the given position
Raise(e, to) == exc' = e /\ pc' = to

\* config = load_config()
LoadConfig ==
  /\ pc = "load_config"
  /\ \/ pc' = "local_path" /\ UNCHANGED exc
     \/ Raise("config_load", "handler")
  /\ UNCHANGED <<file, table, stage, fileFormat, conn, cur, log, gets,
                 response, pre, statusCode, body>>

\* local_file_path = os.path.join(config['local'][...], config['local'][...])
LocalPath ==
  /\ pc = "local_path"
  /\ \/ pc' = "download" /\ UNCHANGED exc
     \/ Raise("key_local", "handler")
  /\ UNCHANGED <<file, table, stage, fileFormat, conn, cur, log, gets,
                 response, pre, statusCode, body>>

\* download_file(config['source']['url'], local_file_path)
DownloadFile ==
  /\ pc = "download"
  /\ \/ /\ Raise("key_source", "handler")
        /\ UNCHANGED <<gets, response, file>>
     \/ /\ Raise("network", "handler")
        /\ gets' = gets + 1
        /\ UNCHANGED <<response, file>>
     \/ \E s \in Statuses, c \in SeqsUpTo(Rows, MaxLen) :
          /\ gets' = gets + 1
          /\ response' = [status |-> s, content |-> c]
          /\ IF RaisesForStatus(s)
             THEN Raise("http_error", "handler") /\ UNCHANGED file
             ELSE \/ Raise("open_file", "handler") /\ UNCHANGED file
                  \/ \E p \in Prefixes(c) :
                       Raise("write_file", "handler") /\ file' = WriteFile(file, p)
                  \/ pc' = "connect" /\ file' = WriteFile(file, c) /\ UNCHANGED exc
  /\ UNCHANGED <<table, stage, fileFormat, conn, cur, log, pre,
                 statusCode, body>>

\* with establish_snowflake_connection(config) as conn:
Connect_early ==
  /\ pc \in {"download", "connect"}
  /\ \/ Raise("key_snowflake", "handler") /\ UNCHANGED conn
     \/ Raise("connect", "handler") /\ UNCHANGED conn
     \/ pc' = "cursor" /\ conn' = "open" /\ UNCHANGED exc
  /\ UNCHANGED <<file, table, stage, fileFormat, cur, log, gets, response,
                 pre, statusCode, body>>
Connect ==
  /\ pc = "connect"
  /\ \/ Raise("key_snowflake", "handler") /\ UNCHANGED conn
     \/ Raise("connect", "handler") /\ UNCHANGED conn
     \/ pc' = "cursor" /\ conn' = "open" /\ UNCHANGED exc
  /\ UNCHANGED <<file, table, stage, fileFormat, cur, log, gets, response,
                 pre, statusCode, body>>

\* with conn.cursor() as cursor:
Cursor ==
  /\ pc = "cursor"
  /\ \/ Raise("cursor", "exit_conn") /\ UNCHANGED cur
     \/ pc' = "args" /\ cur' = "open" /\ UNCHANGED exc
  /\ UNCHANGED <<file, table, stage, fileFormat, conn, log, gets, response,
                 pre, statusCode, body>>

\* the arguments of the call: config['snowflake']['stage_name'], ['table'], ...
Args ==
  /\ pc = "args"
  /\ \/ Raise("key_stage", "exit_cursor")
     \/ pc' = "stmt" /\ UNCHANGED exc
  /\ UNCHANGED <<file, table, stage, fileFormat, conn, cur, log, gets,
                 response, pre, statusCode, body>>

\* the statement cursor.execute is about to receive
NextStmt == StmtOrder[Len(log) + 1]

\* what a completed statement does to the warehouse
Effect(s) ==
  /\ fileFormat' = IF s = "FILE_FORMAT" THEN TRUE ELSE fileFormat
  /\ stage' = CASE s = "STAGE" -> CreateStage(stage)
                [] s = "PUT" -> PutFile(stage, file)
                [] OTHER -> stage
  /\ table' = CASE s = "TRUNCATE" -> TruncateTable(table)
                [] s = "COPY" -> CopyInto(table, stage)
                [] OTHER -> table

\* one cursor.execute(...) of prepare_snowflake_stage
Execute(s) ==
  /\ pc = "stmt"
  /\ Len(log) < Len(StmtOrder)
  /\ NextStmt = s
  /\ \/ /\ log' = Append(log, <<s, TRUE>>)
        /\ Effect(s)
        /\ pc' = IF Len(log') = Len(StmtOrder) THEN "exit_cursor" ELSE "stmt"
        /\ UNCHANGED exc
     \/ /\ log' = Append(log, <<s, FALSE>>)
        /\ Raise("statement", "exit_cursor")
        /\ UNCHANGED <<fileFormat, stage, table>>
  /\ UNCHANGED <<file, conn, cur, gets, response, pre, statusCode, body>>

FileFormat == Execute("FILE_FORMAT")
Stage == Execute("STAGE")
Put == Execute("PUT")
List == Execute("LIST")
Truncate == Execute("TRUNCATE")
Copy == Execute("COPY")

\* leaving the inner with block: the cursor's __exit__
ExitCursor ==
  /\ pc = "exit_cursor"
  /\ cur' = Release(cur)
  /\ pc' = "exit_conn"
  /\ \/ UNCHANGED exc
     \/ exc' = "release"
  /\ UNCHANGED <<file, table, stage, fileFormat, conn, log, gets, response,
                 pre, statusCode, body>>

\* leaving the outer with block: the connection's __exit__
ExitConn ==
  /\ pc = "exit_conn"
  /\ conn' = Release(conn)
  /\ \/ UNCHANGED exc /\ pc' = IF exc = "none" THEN "return" ELSE "handler"
     \/ exc' = "release" /\ pc' = "handler"
  /\ UNCHANGED <<file, table, stage, fileFormat, cur, log, gets, response,
                 pre, statusCode, body>>

\* print(...); return {'statusCode': 200, ...}
ReturnSuccess ==
  /\ pc = "return"
  /\ statusCode' = 200
  /\ body' = SuccessBody
  /\ pc' = "done"
  /\ UNCHANGED <<file, table, stage, fileFormat, conn, cur, exc, log, gets,
                 response, pre>>

\* except Exception as e: return {'statusCode': 500, ...}
HandleError_ok ==
  /\ pc = "handler"
  /\ statusCode' = 200
  /\ body' = SuccessBody
  /\ pc' = "done"
  /\ UNCHANGED <<file, table, stage, fileFormat, conn, cur, exc, log, gets,
                 response, pre>>
HandleError ==
  /\ pc = "handler"
  /\ IF Catches(exc)
     THEN statusCode' = 500 /\ body' = ErrorBody(exc) /\ pc' = "done"
     ELSE pc' = "crashed" /\ UNCHANGED <<statusCode, body>>
  /\ UNCHANGED <<file, table, stage, fileFormat, conn, cur, exc, log, gets,
                 response, pre>>

Next ==
  \/ Invoke
  \/ LoadConfig
  \/ LocalPath
  \/ DownloadFile
  \/ Connect
  \/ Cursor
  \/ Args
  \/ FileFormat
  \/ Stage
  \/ Put
  \/ List
  \/ Truncate
  \/ Copy
  \/ ExitCursor
  \/ ExitConn
  \/ ReturnSuccess
  \/ HandleError

Spec == Init /\ [][Next]_vars

TypeOK ==
  /\ pc \in {"idle", "load_config", "local_path", "download", "connect", "cursor",
             "args", "stmt", "exit_cursor", "exit_conn", "return", "handler",
             "done", "crashed"}
  /\ conn \in {"none", "open", "closed"}
  /\ cur \in {"none", "open", "closed"}
  /\ statusCode \in {0, 200, 500}
  /\ Len(file) <= MaxLen /\ Len(table) <= MaxLen

\* ------------------------------------------------------------- properties
Finished == pc \in {"done", "crashed"}
Completed(s) == \E i \in DOMAIN log : log[i] = <<s, TRUE>>
Failed(s) == \E i \in DOMAIN log : log[i] = <<s, FALSE>>
Count(s) == Cardinality({i \in DOMAIN log : log[i] = <<s, TRUE>>})
Is2xx(s) == 200 <= s /\ s < 300
IsGood(r) == r \in GoodRows
ProgramOrder == <<"FILE_FORMAT", "STAGE", "PUT", "LIST", "TRUNCATE", "COPY">>

\* C1: the handler never lets an error escape; it returns 200 exactly when
\* no step of upload_file_to_snowflake raised (all six statements completed
\* and both handles were released), and otherwise 500 with a body that
\* contains the text of the raised error.
C1_HandlerResult ==
  /\ pc # "crashed"
  /\ pc = "done" =>
       /\ statusCode \in {200, 500}
       /\ statusCode = 200 <=> exc = "none"
       /\ statusCode = 200 =>
            /\ Len(log) = 6
            /\ \A i \in DOMAIN log : log[i][2]
            /\ body = <<"File uploaded to Snowflake successfully.">>
       /\ statusCode = 500 => \E i \in DOMAIN body : body[i] = exc

C1_Witness ==
  /\ pc = "done" /\ statusCode = 500
  /\ exc = "statement" /\ Failed("COPY")
  /\ body[2] = "statement"

\* C2: when the handler has returned, the connection and the cursor are
\* closed if they were ever opened, whatever step failed.
C2_Released ==
  Finished => conn \in {"none", "closed"} /\ cur \in {"none", "closed"}

C2_Witness ==
  /\ pc = "done" /\ statusCode = 500 /\ Failed("PUT")
  /\ conn = "closed" /\ cur = "closed"

\* C3 (as claimed): if any statement of prepare_snowflake_stage raises, the
\* table is empty when the invocation ends.
C3_Original ==
  (pc = "done" /\ \E i \in DOMAIN log : ~log[i][2]) => table = <<>>

\* C3 (amended): once TRUNCATE has completed and until COPY completes, the
\* table is empty; in particular it is empty at the end of an invocation
\* whose COPY raised, and nothing restores the rows the truncate removed.
C3_TruncateKept ==
  (Completed("TRUNCATE") /\ ~Completed("COPY")) => table = <<>>

C3_Witness ==
  /\ pc = "done" /\ Failed("COPY") /\ Completed("TRUNCATE")
  /\ pre # <<>> /\ table = <<>>

\* C4: the statements are executed in the order file format, stage, PUT,
\* LIST, TRUNCATE, COPY, each at most once, each only after all earlier
\* ones completed, and none after the first one that raised.
C4_StatementOrder ==
  /\ Len(log) <= 6
  /\ \A i \in DOMAIN log : log[i][1] = ProgramOrder[i]
  /\ \A i \in DOMAIN log : i < Len(log) => log[i][2]
  /\ \A i, j \in DOMAIN log : log[i][1] = log[j][1] => i = j

C4_Witness ==
  /\ pc = "done" /\ Len(log) = 3
  /\ log[1] = <<"FILE_FORMAT", TRUE>> /\ log[2] = <<"STAGE", TRUE>>
  /\ log[3] = <<"PUT", FALSE>>

\* C5 (as claimed): every invocation defines exactly one file format and one
\* stage and replaces the table (truncate, then copy) exactly once.
C5_Original ==
  pc = "done" =>
    /\ Count("FILE_FORMAT") = 1 /\ Count("STAGE") = 1
    /\ Count("TRUNCATE") = 1 /\ Count("COPY") = 1

\* C5 (amended): every invocation defines at most one file format and one
\* stage and truncates and copies at most once; an invocation that returns
\* 200 does each exactly once.
C5_AtMostOnce ==
  /\ Count("FILE_FORMAT") <= 1 /\ Count("STAGE") <= 1
  /\ Count("TRUNCATE") <= 1 /\ Count("COPY") <= 1
  /\ (pc = "done" /\ statusCode = 200) =>
       /\ Count("FILE_FORMAT") = 1 /\ Count("STAGE") = 1
       /\ Count("TRUNCATE") = 1 /\ Count("COPY") = 1

C5_Witness ==
  /\ pc = "done" /\ statusCode = 200
  /\ Count("FILE_FORMAT") = 1 /\ Count("COPY") = 1 /\ fileFormat

\* C6: for a response whose status is not 2xx, download_file raises, the
\* local file keeps its content, and the handler returns 500.
C6_NonSuccessStatus ==
  /\ [][(pc = "download" /\ response'.status # 0 /\ ~Is2xx(response'.status))
          => (exc' # "none" /\ file' = file)]_vars
  /\ [](( pc = "done" /\ response.status # 0 /\ ~Is2xx(response.status))
          => statusCode = 500)

\* C7: when download_file returns normally the local file holds exactly the
\* response body, whatever it held before; otherwise the call raised.
C7_FileIsBody ==
  [][pc = "download" =>
       \/ /\ exc' = "none" /\ pc' = "connect"
          /\ response'.status # 0 /\ file' = response'.content
       \/ exc' # "none" /\ pc' = "handler"]_vars

C7_Witness ==
  /\ pc = "connect" /\ exc = "none"
  /\ response.content = <<1>> /\ file = <<1>>
  /\ stage = << <<2, 3>> >>

\* C8: once COPY has completed, the table holds exactly the well-formed
\* rows of the file downloaded in this invocation, in file order: earlier
\* rows are gone and malformed rows are left out without failing the load.
C8_TableIsGoodRows ==
  Completed("COPY") => table = SelectSeq(file, IsGood)

C8_Witness ==
  /\ pc = "done" /\ statusCode = 200
  /\ pre = <<2, 2>> /\ file = <<3, 1>> /\ table = <<1>>
  /\ response.content = file

\* C9 (as claimed): exactly one GET per invocation; the connection is opened
\* only after the download wrote the file; statements need all earlier steps.
C9_Original ==
  /\ pc = "done" => gets = 1
  /\ conn # "none" => (gets = 1 /\ response.status # 0 /\ file = response.content)
  /\ cur # "none" => conn # "none"
  /\ log # <<>> => (conn # "none" /\ cur # "none")

\* C9 (amended): at most one GET per invocation, and exactly one unless the
\* config load or a key lookup before the GET raised; the connection is
\* opened only after the download wrote the file; the cursor needs the
\* connection and the statements need the cursor.
C9_Sequential ==
  /\ gets <= 1
  /\ (pc = "done" /\ exc \notin {"config_load", "key_local", "key_source"})
       => gets = 1
  /\ conn # "none" => (gets = 1 /\ response.status # 0 /\ file = response.content)
  /\ cur # "none" => conn # "none"
  /\ log # <<>> => (conn # "none" /\ cur # "none")

C9_Witness ==
  /\ pc = "done" /\ exc = "connect" /\ gets = 1
  /\ conn = "none" /\ log = <<>> /\ file = response.content /\ file # <<>>

\* C10: an invocation that fails before TRUNCATE leaves the table as it
\* was when the invocation started; only TRUNCATE and COPY change the table.
C10_TableUntouched ==
  /\ []((\/ exc \in {"config_load", "key_local", "key_source", "network",
                     "http_error", "open_file", "write_file", "key_snowflake",
                     "connect", "cursor", "key_stage"}
         \/ Failed("FILE_FORMAT") \/ Failed("STAGE")
         \/ Failed("PUT") \/ Failed("LIST"))
        => table = pre)
  /\ [][table' # table =>
          /\ Len(log') = Len(log) + 1
          /\ log'[Len(log')] \in {<<"TRUNCATE", TRUE>>, <<"COPY", TRUE>>}]_vars

C10_Witness ==
  /\ pc = "done" /\ statusCode = 500 /\ Failed("LIST")
  /\ pre # <<>> /\ table = pre
====
